---- MODULE Spec2Model ----
(***************************************************************************)
(* EmployeeWebApp: the three screens of the employee management portal,    *)
(* Dashboard (Directory), CreateEmployee (Creator) and EditEmployee        *)
(* (Editor), their list fetch, delete, create and update workflows, the    *)
(* requests they put on the wire and the navigation that mounts and        *)
(* unmounts them.  One component instance is mounted per visit of a route; *)
(* an async handler of an instance that was left keeps running, its state  *)
(* updates are dropped (React ignores updates of an unmounted component)   *)
(* and its network calls are still made.                                   *)
(*                                                                         *)
(* Strings that are taken apart or put together (messages, form values,    *)
(* timestamps) are sequences of tokens; "" is <<>>.  A number with at most *)
(* two decimals is the integer count of its hundredths (75000.5 is         *)
(* 7500050); an integer id is itself.                                      *)
(*                                                                         *)
(* Spec is the program with the forms left idle (delete workflow in full); *)
(* FormSpec is the program with the delete workflow left out (create and   *)
(* update workflows in full).  Both start from the Dashboard mounted at    *)
(* "/".  NavSpec is the navigation between the screens with the browser's  *)
(* Back and Forward: the app opened at any of its routes, the session      *)
(* history and the location state kept in its entries.                     *)
(* LiveSpec is the three workflows together, the drafts filled in one way, *)
(* under a network that settles every request (weak fairness of each      *)
(* settlement): the specification of the progress properties.              *)
(***************************************************************************)
EXTENDS Integers, Sequences, FiniteSets, TLC

\* ---------------------------------------------------------------- bounds
MaxId == 2          \* employee ids are 1..MaxId
MaxRequests == 3    \* requests issued by a mount or a click in one run
MaxMounts == 2      \* Dashboard instances mounted in one run

\* ------------------------------------------------------------- constants
Statuses == {200, 201, 204, 500}
Causes == {"Network error"}
BadJson == "Unexpected token"      \* message of the error response.json() throws
NoError == <<>>                    \* error === null
NoResp == [type |-> "none"]         \* no settlement
NoState == [id |-> 0]              \* location.state is null

NaN == -1                          \* Number.NaN (no input denotes a negative number)

Ids == 1..MaxId

\* the Employee of id i as the service sends it: complete for an odd id,
\* without salary and managerId (undefined in the record) for an even id
Employee(i) ==
  IF i % 2 = 1
  THEN [id |-> i, name |-> <<"Employee ", ToString(i)>>,
        dateOfJoining |-> <<"2025-08-18", "T10:00:00.000+00:00">>,
        department |-> <<"IT">>, salary |-> 750, managerId |-> 12,
        status |-> <<"ACTIVE">>]
  ELSE [id |-> i, name |-> <<"Employee ", ToString(i)>>,
        dateOfJoining |-> <<"2025-08-18", "T10:00:00.000+00:00">>,
        department |-> <<"IT">>, status |-> <<"ACTIVE">>]

EmployeeRecords == {Employee(i) : i \in Ids}

\* JSON arrays of Employee the service may answer with: ids are unique and
\* the records come in the order of their ids
Bodies ==
  UNION {{b \in [1..n -> EmployeeRecords] :
            \A i, j \in 1..n : i < j => b[i].id < b[j].id} : n \in 0..MaxId}

\* the array of all records
AllRecords == [i \in Ids |-> Employee(i)]

Reject(c) == [type |-> "reject", cause |-> c]
Answer(s, parses, b) == [type |-> "status", status |-> s, parses |-> parses, body |-> b]

\* what fetch("/api/employees") can settle with: a rejection, or a status
\* with a body that parses as JSON or does not (a 204 has no body; the body
\* of a 500 is never read: one array stands for all)
ListResponses ==
  {Reject(c) : c \in Causes}
    \cup {Answer(s, TRUE, b) : s \in {200, 201}, b \in Bodies}
    \cup {Answer(500, TRUE, AllRecords)}
    \cup {Answer(s, FALSE, <<>>) : s \in Statuses}

\* what fetch("/api/employees/{id}", DELETE) can settle with
DeleteResponses ==
  {Reject(c) : c \in Causes} \cup {Answer(s, FALSE, <<>>) : s \in Statuses}

\* what fetch("/api/employees", POST) and fetch("/api/employees/{id}", PATCH)
\* can settle with (the body is never read)
SubmitStatuses == {200, 201, 500}
SubmitResponses ==
  {Reject(c) : c \in Causes} \cup {Answer(s, FALSE, <<>>) : s \in SubmitStatuses}

\* the fields of the two forms, and those marked required that start empty
CreateFields == {"name", "dateOfJoining", "department", "salary", "managerId", "status"}
EditFields == {"name", "department", "salary", "managerId", "status"}

\* e.target.value of a change event of the field: what the control can hold
\* (a select holds one of its options, a number input a numeric string
\* within min and step, or "")
Inputs(field) ==
  CASE field = "name"          -> {<<>>, <<"Ann">>}
    [] field = "dateOfJoining" -> {<<>>, <<"2025-08-22">>}
    [] field = "department"    -> {<<>>, <<"IT">>}
    [] field = "salary"        -> {<<>>, <<"7", ".", "5", "0">>, <<"7", ".", "5">>}
    [] field = "managerId"     -> {<<>>, <<"1", "2">>}
    [] field = "status"        -> {<<"ACTIVE">>, <<"NOT_ACTIVE">>}

\* a draft that starts with a name left in it and status NOT_ACTIVE
CreateInitialFormDataLeftOver ==
  [name |-> <<"Ann">>, dateOfJoining |-> <<>>, department |-> <<>>, salary |-> <<>>,
   managerId |-> <<>>, status |-> <<"NOT_ACTIVE">>]

\* useState initial formData of CreateEmployee
CreateInitialFormData ==
  [name |-> <<>>, dateOfJoining |-> <<>>, department |-> <<>>, salary |-> <<>>,
   managerId |-> <<>>, status |-> <<"ACTIVE">>]

\* useState initial formData of EditEmployee
EditInitialFormData ==
  [name |-> <<>>, department |-> <<>>, salary |-> <<>>, managerId |-> <<>>,
   status |-> <<"ACTIVE">>]

NoFormData == [name |-> <<>>]      \* no form is mounted
NoBody == [name |-> <<>>]          \* a request without body
NoEvent == [name |-> "none"]       \* nothing to tell about the step

\* the routes of <Routes> and the component each mounts
Routes == {"/", "/create-employee", "/edit-employee"}
RouteOf(path) ==
  CASE path = "/" -> "dashboard"
    [] path = "/create-employee" -> "create"
    [] path = "/edit-employee" -> "edit"

\* an entry of the session history: the path and the location.state kept
\* with it (window.history.state)
Entry(path, st) == [path |-> path, state |-> st]

\* the session history is not tracked
Untracked == [entries |-> <<>>, index |-> 0]

VARIABLES
  screen,            \* route shown: "dashboard" | "create" | "edit"
  locationState,     \* location.state.employee of the current route entry
  inst,              \* number of the mounted (or last mounted) Dashboard instance
  employees,         \* Dashboard state: employees
  loading,           \* state of the mounted component: loading
  error,             \* state of the mounted component: error (NoError for null)
  deleteLoading,     \* Dashboard state: deleteLoading
  showSuccessModal,  \* state of the mounted component: showSuccessModal
  formData,          \* CreateEmployee / EditEmployee state: formData
  reqs,              \* every request issued so far, in order of issue
  clicks,            \* every Delete(id) action performed so far, in order
  consumed,          \* the request whose awaiting handler resumed in the step
                     \* just taken, with the settlement it resumed on
  event,             \* what the step just taken was, where the change of state
                     \* does not tell: a submit the form's validation stopped,
                     \* a select-for-edit whose lookup found nothing, a
                     \* navigation made by a mount effect (not by the user),
                     \* a return to the Dashboard from a success modal
  history            \* the session history of the tab: its entries and the
                     \* index of the current one (Untracked where the
                     \* browser's Back and Forward are left out)

vars == <<screen, locationState, inst, employees, loading, error,
          deleteLoading, showSuccessModal, formData, reqs, clicks, consumed,
          event, history>>

\* the state of the mounted component
dash == <<employees, loading, error, deleteLoading, showSuccessModal, formData>>

\* ------------------------------------------------------------ requests
\* A request: method and id (0 for the list path /api/employees), the
\* number of the Dashboard instance mounted last when its handler issued it
\* (a form is mounted at most once between two Dashboard instances), the
\* index in reqs of the DELETE whose success handler issued it (0: issued by
\* a mount effect or a user action), its progress: "sent" (awaited) -> "ok" |
\* "fail" (the branch the awaiting handler took when it resumed) | "done"
\* (settled, outcome not kept), empty: a list fetch of a Dashboard still
\* shown took the success branch on an array of zero records, and the body
\* sent.
Request(m, id, i, t) ==
  [method |-> m, id |-> id, inst |-> i, trigger |-> t, status |-> "sent",
   empty |-> FALSE, body |-> NoBody]

\* the log when the mounted component is unmounted: the outcomes of its
\* requests are forgotten
Forget(rs) ==
  [k \in 1..Len(rs) |->
     IF rs[k].status \in {"ok", "fail"} /\ rs[k].method # "DELETE"
     THEN [rs[k] EXCEPT !.status = "done", !.empty = FALSE]
     ELSE rs[k]]

\* the route of the component whose handler issues a request of method m
ScreenOf(m) ==
  CASE m = "POST" -> "create" [] m = "PATCH" -> "edit" [] OTHER -> "dashboard"

\* no handler resumed in the step just taken
Nothing == [k |-> 0, resp |-> NoResp]

\* a settlement nothing is read of
Unread == [type |-> "unread"]

Path(r) == IF r.id = 0 THEN <<"/api/employees">> ELSE <<"/api/employees/", r.id>>

InFlight(k) == reqs[k].status = "sent"

\* any instance of the component's route counts as the one that issued it
MountedAnyInstance(k) == screen = ScreenOf(reqs[k].method)

\* the handler that issued request k belongs to the component now shown
Mounted(k) == screen = ScreenOf(reqs[k].method) /\ reqs[k].inst = inst

\* the handler awaiting request k has resumed on resp (what a handler of an
\* unmounted component resumed on is kept for a DELETE only: nothing else
\* depends on it)
Consumed(k, resp) ==
  [k |-> k, resp |-> IF Mounted(k) \/ reqs[k].method = "DELETE" THEN resp ELSE Unread]

\* the requests issued by a mount effect or by a click (a re-fetch is
\* issued by a handler that is already running)
UserRequests == {k \in 1..Len(reqs) : reqs[k].trigger = 0}

\* one more request may be issued by a mount or a click
Room == Cardinality(UserRequests) < MaxRequests

\* navigate(path, {state}) on history h: the entries after the current one
\* are dropped and a new entry becomes the current one
Push(h, path, st) ==
  IF h = Untracked THEN h
  ELSE [entries |-> Append(SubSeq(h.entries, 1, h.index), Entry(path, st)),
        index   |-> h.index + 1]

\* --------------------------------------------------------- pure helpers
\* response.ok
ResponseOk(s) == s >= 200 /\ s <= 299

\* new Error(`HTTP error! status: ${response.status}`).message
HttpError(s) == <<"HTTP error! status: ", ToString(s)>>

\* the message without the interpolated err.message
FetchErrorMessageNoCause(cause) == <<"Failed to fetch employees">>

\* `Failed to fetch employees: ${err.message}`
FetchErrorMessage(cause) == <<"Failed to fetch employees", ": ">> \o cause

\* `Failed to delete employee. Please try again. ${err.message}`
DeleteErrorMessage(cause) ==
  <<"Failed to delete employee", ". Please try again. ">> \o cause

\* err.message of what the try block of fetchEmployees throws on resp,
\* <<>> when it throws nothing
FetchFailure(resp) ==
  IF resp.type = "reject" THEN <<resp.cause>>
  ELSE IF ~ResponseOk(resp.status) THEN HttpError(resp.status)
  ELSE IF ~resp.parses THEN <<BadJson>>
  ELSE <<>>

\* response.ok tested in place of status === 204
DeleteSucceededAnyOk(resp) == resp.type = "status" /\ ResponseOk(resp.status)

\* the DELETE settled with status 204
DeleteSucceeded(resp) == resp.type = "status" /\ resp.status = 204

\* a fixed text in place of the thrown error's message
DeleteFailureGeneric(resp) == <<"Request failed">>

\* err.message of what the try block of handleDeleteEmployee throws on resp
DeleteFailure(resp) ==
  IF resp.type = "reject" THEN <<resp.cause>> ELSE HttpError(resp.status)

\* the first record of the list whatever its id
FindFirst(list, id) == IF Len(list) > 0 THEN list[1] ELSE NoState

\* employees.find((emp) => emp.id === employeeId): the first match, or NoState
Find(list, id) ==
  IF \E i \in 1..Len(list) : list[i].id = id
  THEN list[CHOOSE i \in 1..Len(list) :
              list[i].id = id /\ \A j \in 1..(i - 1) : list[j].id # id]
  ELSE NoState

\* ------------------------------------------------- strings and numbers
DigitChars == <<"0", "1", "2", "3", "4", "5", "6", "7", "8", "9">>
IsDigit(c) == \E d \in 1..10 : DigitChars[d] = c
DigitVal(c) == (CHOOSE d \in 1..10 : DigitChars[d] = c) - 1

\* the longest prefix of s made of digits
LeadingDigits(s) ==
  LET n == CHOOSE n \in 0..Len(s) :
             /\ \A i \in 1..n : IsDigit(s[i])
             /\ n = Len(s) \/ ~IsDigit(s[n + 1])
  IN  SubSeq(s, 1, n)

RECURSIVE Decimal(_)
\* the integer written by the digits ds
Decimal(ds) ==
  IF ds = <<>> THEN 0
  ELSE 10 * Decimal(SubSeq(ds, 1, Len(ds) - 1)) + DigitVal(ds[Len(ds)])

\* parseInt(s) of an unsigned s: the integer of its leading digits, or NaN
ParseInt(s) ==
  LET ds == LeadingDigits(s) IN IF ds = <<>> THEN NaN ELSE Decimal(ds)

\* parseFloat(s) of an unsigned s without exponent, in hundredths: leading
\* digits, then "." and digits; NaN when there is no digit
ParseFloat(s) ==
  LET ip   == LeadingDigits(s)
      rest == SubSeq(s, Len(ip) + 1, Len(s))
      fr   == IF rest # <<>> /\ rest[1] = "." THEN LeadingDigits(Tail(rest)) ELSE <<>>
      d1   == IF Len(fr) >= 1 THEN DigitVal(fr[1]) ELSE 0
      d2   == IF Len(fr) >= 2 THEN DigitVal(fr[2]) ELSE 0
  IN  IF ip = <<>> /\ fr = <<>> THEN NaN
      ELSE 100 * Decimal(ip) + 10 * d1 + d2

RECURSIVE DigitsOf(_)
\* the decimal digits of the natural number n
DigitsOf(n) ==
  IF n < 10 THEN <<DigitChars[n + 1]>>
  ELSE Append(DigitsOf(n \div 10), DigitChars[(n % 10) + 1])

\* Number.prototype.toString of an integer
IntToString(n) == DigitsOf(n)

\* Number.prototype.toString of a number given in hundredths: no trailing
\* zeros, no "." for a whole number
NumberToString(h) ==
  LET ip == DigitsOf(h \div 100)
      d1 == (h % 100) \div 10
      d2 == h % 10
  IN  IF d1 = 0 /\ d2 = 0 THEN ip
      ELSE IF d2 = 0 THEN ip \o <<".", DigitChars[d1 + 1]>>
      ELSE ip \o <<".", DigitChars[d1 + 1], DigitChars[d2 + 1]>>

\* new Date(s) is an Invalid Date: s is not a date ("" of an empty date input)
InvalidDate(s) == s = <<>>

\* the entered date sent as typed
ToISOStringDateOnly(s) == s

\* new Date(s).toISOString() of a date-only s "YYYY-MM-DD": UTC midnight
ToISOString(s) == s \o <<"T00:00:00.000Z">>

\* the message of the RangeError toISOString throws on an Invalid Date
InvalidTime == <<"Invalid time value">>

\* `Failed to create employee. Please try again. ${err.message}`
CreateErrorMessage(cause) ==
  <<"Failed to create employee", ". Please try again. ">> \o cause

\* `Failed to edit employee. Please try again. ${err.message}`
EditErrorMessage(cause) ==
  <<"Failed to edit employee", ". Please try again. ">> \o cause

\* response.ok tested in place of status === 201
CreateSucceededAnyOk(resp) == resp.type = "status" /\ ResponseOk(resp.status)

\* the POST settled with status 201
CreateSucceeded(resp) == resp.type = "status" /\ resp.status = 201

\* the PATCH settled with status 200
EditSucceeded(resp) == resp.type = "status" /\ resp.status = 200

\* err.message of what the try block of handleSubmit throws on resp
SubmitFailure(resp) ==
  IF resp.type = "reject" THEN <<resp.cause>> ELSE HttpError(resp.status)

\* submitData of CreateEmployee.handleSubmit
CreateSubmitData(fd) ==
  [name          |-> fd.name,
   dateOfJoining |-> ToISOString(fd.dateOfJoining),
   department    |-> fd.department,
   salary        |-> ParseFloat(fd.salary),
   managerId     |-> ParseInt(fd.managerId),
   status        |-> fd.status]

\* the injected record sent back with the edited fields over it
EditSubmitDataWholeRecord(fd) ==
  [id            |-> locationState.id,
   dateOfJoining |-> locationState.dateOfJoining,
   name          |-> fd.name,
   department    |-> fd.department,
   salary        |-> ParseFloat(fd.salary),
   managerId     |-> ParseInt(fd.managerId),
   status        |-> fd.status]

\* submitData of EditEmployee.handleSubmit
EditSubmitData(fd) ==
  [name       |-> fd.name,
   department |-> fd.department,
   salary     |-> ParseFloat(fd.salary),
   managerId  |-> ParseInt(fd.managerId),
   status     |-> fd.status]

\* the field is defined on the record
Has(rec, field) == field \in DOMAIN rec

\* String(x) of each field, without fallback
PrefillNoFallback(employeeData) ==
  LET Str(field, text) == IF Has(employeeData, field) THEN text ELSE <<"undefined">>
  IN  [name       |-> Str("name", employeeData.name),
       department |-> Str("department", employeeData.department),
       salary     |-> Str("salary", NumberToString(employeeData.salary)),
       managerId  |-> Str("managerId", IntToString(employeeData.managerId)),
       status     |-> Str("status", employeeData.status)]

\* the formData the mount effect of EditEmployee sets from employeeData:
\* x || "" of a string (an undefined or empty x gives ""), x?.toString() || ""
\* of a number (an undefined x gives "", a number its non-empty text),
\* x || "ACTIVE" of the status
Prefill(employeeData) ==
  LET Or(field, text, fallback) ==
        IF Has(employeeData, field) /\ text # <<>> THEN text ELSE fallback
  IN  [name       |-> Or("name", employeeData.name, <<>>),
       department |-> Or("department", employeeData.department, <<>>),
       salary     |-> Or("salary", NumberToString(employeeData.salary), <<>>),
       managerId  |-> Or("managerId", IntToString(employeeData.managerId), <<>>),
       status     |-> Or("status", employeeData.status, <<"ACTIVE">>)]

\* the required attribute honoured for every field but department
FormValidDepartmentOptional(fields) ==
  \A f \in fields \ {"department"} : formData[f] # <<>>

\* constraint validation of the form on submit: every control is marked
\* required (the values Inputs offers satisfy min and step)
FormValid(fields) == \A f \in fields : formData[f] # <<>>

\* ------------------------------------------------------------ rendering
ShowLoading == screen = "dashboard" /\ loading
ShowError == screen = "dashboard" /\ error # NoError
\* the empty-state shown whenever nothing is held, error or not
ShowNoDataIgnoringError == screen = "dashboard" /\ ~loading /\ Len(employees) = 0

ShowNoData == screen = "dashboard" /\ ~loading /\ error = NoError /\ Len(employees) = 0

\* the table shown whenever records are held, error or not
ShowTableIgnoringError == screen = "dashboard" /\ ~loading /\ Len(employees) > 0

ShowTable == screen = "dashboard" /\ ~loading /\ error = NoError /\ Len(employees) > 0

\* the rows of the table, one per held record
Rows == IF ShowTable THEN 1..Len(employees) ELSE {}

\* the DELETE requests of the Dashboard shown that are still awaited
BusyDeletes ==
  {k \in 1..Len(reqs) : reqs[k].method = "DELETE" /\ InFlight(k) /\ Mounted(k)}

\* only the row whose delete is awaited is disabled
DeleteDisabledOwnRow(id) == deleteLoading /\ \E k \in BusyDeletes : reqs[k].id = id

\* the delete button never disabled
DeleteDisabledNever(id) == FALSE

\* disabled={deleteLoading} of the delete button of the row of id
DeleteDisabled(id) == deleteLoading

\* only the row whose delete is awaited shows the in-progress label
DeleteLabelOwnRow(id) ==
  IF deleteLoading /\ \E k \in BusyDeletes : reqs[k].id = id THEN "Deleting..." ELSE "Delete"

\* {deleteLoading ? "Deleting..." : "Delete"} of the row of id
DeleteLabel(id) == IF deleteLoading THEN "Deleting..." ELSE "Delete"

\* the delete button clickable although disabled
CanDeleteIgnoringDisabled(id) == \E i \in Rows : employees[i].id = id

\* the delete button of the row of id can be clicked
CanDelete(id) ==
  /\ \E i \in Rows : employees[i].id = id
  /\ ~DeleteDisabled(id)

\* ----------------------------------------------------------------- Init
\* <Dashboard /> mounted at "/": initial state and the mount effect's fetch
Init ==
  /\ screen = "dashboard"
  /\ locationState = NoState
  /\ inst = 1
  /\ employees = <<>>
  /\ loading = TRUE
  /\ error = NoError
  /\ deleteLoading = FALSE
  /\ showSuccessModal = FALSE
  /\ formData = NoFormData
  /\ reqs = <<Request("GET", 0, 1, 0)>>
  /\ clicks = <<>>
  /\ consumed = Nothing
  /\ event = NoEvent
  /\ history = Untracked

\* a Dashboard that mounts with nothing to load and fetches nothing
MountDashboardNoFetch ==
  /\ inst < MaxMounts
  /\ Room
  /\ screen' = "dashboard"
  /\ locationState' = NoState
  /\ inst' = inst + 1
  /\ employees' = <<>>
  /\ loading' = FALSE
  /\ error' = NoError
  /\ deleteLoading' = FALSE
  /\ showSuccessModal' = FALSE
  /\ formData' = NoFormData
  /\ reqs' = Forget(reqs)
  /\ consumed' = Nothing
  /\ UNCHANGED clicks

\* <Dashboard /> mounts at "/": initial state, and its effect runs
\* fetchEmployees
MountDashboard ==
  /\ inst < MaxMounts
  /\ Room
  /\ screen' = "dashboard"
  /\ locationState' = NoState
  /\ inst' = inst + 1
  /\ employees' = <<>>
  /\ loading' = TRUE
  /\ error' = NoError
  /\ deleteLoading' = FALSE
  /\ showSuccessModal' = FALSE
  /\ formData' = NoFormData
  /\ reqs' = Append(Forget(reqs), Request("GET", 0, inst + 1, 0))
  /\ consumed' = Nothing
  /\ UNCHANGED clicks

\* navigate("/") of a form
NavigateHome ==
  /\ MountDashboard
  /\ history' = Push(history, "/", NoState)

\* ------------------------------------------------------- Dashboard actions
\* the Dashboard is unmounted and the component of route r is mounted with
\* location.state.employee = st and formData = fd (the other state hooks of
\* CreateEmployee and of EditEmployee start as below)
MountForm(r, st, fd) ==
  /\ screen' = r
  /\ locationState' = st
  /\ employees' = <<>>
  /\ loading' = FALSE
  /\ error' = NoError
  /\ deleteLoading' = FALSE
  /\ showSuccessModal' = FALSE
  /\ formData' = fd
  /\ reqs' = Forget(reqs)

\* navigate("/create-employee"): <CreateEmployee /> mounts
HandleCreateEmployee ==
  /\ screen = "dashboard"
  /\ MountForm("create", NoState, CreateInitialFormData)
  /\ history' = Push(history, "/create-employee", NoState)
  /\ consumed' = Nothing
  /\ event' = NoEvent
  /\ UNCHANGED <<inst, clicks>>

\* navigation to the Editor whatever the lookup found
HandleEditEmployeeUnchecked(employeeId) ==
  /\ ShowTable
  /\ LET employee == Find(employees, employeeId)
     IN  /\ MountForm("edit", employee, EditInitialFormData)
         /\ history' = Push(history, "/edit-employee", employee)
  /\ consumed' = Nothing
  /\ event' = [name |-> "edit", id |-> employeeId]
  /\ UNCHANGED <<inst, clicks>>

\* handleEditEmployee, entered from an Edit button of the table with the id
\* it is given (not assumed to be held); on navigate("/edit-employee",
\* {state: {employee}}) <EditEmployee /> mounts and its effect pre-fills
\* formData
HandleEditEmployee(employeeId) ==
  /\ ShowTable
  /\ LET employee == Find(employees, employeeId)
     IN  IF employee # NoState
         THEN /\ MountForm("edit", employee, Prefill(employee))
              /\ history' = Push(history, "/edit-employee", employee)
              /\ event' = NoEvent
         ELSE /\ UNCHANGED <<history, screen, locationState, dash, reqs>>
              /\ event' = [name |-> "edit", id |-> employeeId]
  /\ consumed' = Nothing
  /\ UNCHANGED <<inst, clicks>>

\* handleDeleteEmployee up to its first await
HandleDeleteEmployee(employeeId) ==
  /\ CanDelete(employeeId)
  /\ Room
  /\ deleteLoading' = TRUE
  /\ error' = NoError
  /\ reqs' = Append(reqs, Request("DELETE", employeeId, inst, 0))
  /\ clicks' = Append(clicks, [id |-> employeeId, inst |-> inst])
  /\ consumed' = Nothing
  /\ event' = NoEvent
  /\ UNCHANGED <<history, screen, locationState, inst, employees, loading, showSuccessModal,
                 formData>>

\* closing the confirmation also dismisses the error message
HandleCloseSuccessModalClearsError ==
  /\ screen = "dashboard"
  /\ showSuccessModal
  /\ showSuccessModal' = FALSE
  /\ error' = NoError
  /\ consumed' = Nothing
  /\ event' = NoEvent
  /\ UNCHANGED <<history, screen, locationState, inst, employees, loading,
                 deleteLoading, formData, reqs, clicks>>

\* handleCloseSuccessModal: the close button of the confirmation
HandleCloseSuccessModal ==
  /\ screen = "dashboard"
  /\ showSuccessModal
  /\ showSuccessModal' = FALSE
  /\ consumed' = Nothing
  /\ event' = NoEvent
  /\ UNCHANGED <<history, screen, locationState, inst, employees, loading, error,
                 deleteLoading, formData, reqs, clicks>>

\* --------------------------------------------------------------- network
\* the handler awaiting request k has resumed on resp and taken branch ok
\* (the log keeps the body of a request while it is awaited, and the outcome
\* of a request while the component that issued it is mounted; a DELETE keeps
\* its outcome, its re-fetch is attributed to it)
Settle(rs, k, ok, resp) ==
  [rs EXCEPT ![k].status = IF ~Mounted(k) /\ rs[k].method # "DELETE" THEN "done"
                           ELSE IF ok THEN "ok" ELSE "fail",
             ![k].empty = ok /\ rs[k].method = "GET" /\ Mounted(k) /\ Len(resp.body) = 0,
             ![k].body = NoBody]

\* setEmployees appending to the held records instead of replacing them
FetchEmployeesResultAppends(resp) ==
  LET cause == FetchFailure(resp)
  IN  [employees |-> IF cause = <<>> THEN employees \o resp.body ELSE employees,
       error     |-> IF cause = <<>> THEN error ELSE FetchErrorMessage(cause),
       loading   |-> FALSE]

\* fetchEmployees after its await, on resp: try / catch / finally
\* (the three state values it leaves)
FetchEmployeesResult(resp) ==
  LET cause == FetchFailure(resp)
  IN  [employees |-> IF cause = <<>> THEN resp.body ELSE employees,
       error     |-> IF cause = <<>> THEN error ELSE FetchErrorMessage(cause),
       loading   |-> FALSE]

\* the fetch of request k settles with resp and the mount effect's
\* fetchEmployees resumes
FetchEmployeesSettled(k, resp) ==
  /\ InFlight(k)
  /\ reqs[k].method = "GET"
  /\ reqs[k].trigger = 0
  /\ resp \in ListResponses
  /\ reqs' = Settle(reqs, k, FetchFailure(resp) = <<>>, resp)
  /\ consumed' = Consumed(k, resp)
  /\ IF Mounted(k)
     THEN LET r == FetchEmployeesResult(resp)
          IN  /\ employees' = r.employees
              /\ error' = r.error
              /\ loading' = r.loading
              /\ UNCHANGED <<deleteLoading, showSuccessModal, formData>>
     ELSE UNCHANGED dash
  /\ event' = NoEvent
  /\ UNCHANGED <<history, screen, locationState, inst, clicks>>

\* a failed DELETE sent once more by the handler itself
DeleteSettledRetries(k, resp) ==
  /\ InFlight(k)
  /\ reqs[k].method = "DELETE"
  /\ resp \in DeleteResponses
  /\ consumed' = Consumed(k, resp)
  /\ IF DeleteSucceeded(resp)
     THEN /\ reqs' = Append(Settle(reqs, k, TRUE, resp), Request("GET", 0, reqs[k].inst, k))
          /\ IF Mounted(k)
             THEN /\ showSuccessModal' = TRUE
                  /\ loading' = TRUE
                  /\ error' = NoError
                  /\ UNCHANGED <<employees, deleteLoading, formData>>
             ELSE UNCHANGED dash
     ELSE /\ reqs' = IF reqs[k].trigger = 0
                     THEN Append(Settle(reqs, k, FALSE, resp),
                                 Request("DELETE", reqs[k].id, reqs[k].inst, k))
                     ELSE Settle(reqs, k, FALSE, resp)
          /\ IF Mounted(k)
             THEN /\ error' = DeleteErrorMessage(DeleteFailure(resp))
                  /\ deleteLoading' = (reqs[k].trigger = 0)
                  /\ UNCHANGED <<employees, loading, showSuccessModal, formData>>
             ELSE UNCHANGED dash
  /\ event' = NoEvent
  /\ UNCHANGED <<history, screen, locationState, inst, clicks>>

\* the DELETE of request k settles with resp and handleDeleteEmployee
\* resumes: on 204 it shows the modal and runs fetchEmployees up to its
\* await; otherwise catch and finally
DeleteSettled(k, resp) ==
  /\ InFlight(k)
  /\ reqs[k].method = "DELETE"
  /\ resp \in DeleteResponses
  /\ consumed' = Consumed(k, resp)
  /\ IF DeleteSucceeded(resp)
     THEN /\ reqs' = Append(Settle(reqs, k, TRUE, resp), Request("GET", 0, reqs[k].inst, k))
          /\ IF Mounted(k)
             THEN /\ showSuccessModal' = TRUE
                  /\ loading' = TRUE
                  /\ error' = NoError
                  /\ UNCHANGED <<employees, deleteLoading, formData>>
             ELSE UNCHANGED dash
     ELSE /\ reqs' = Settle(reqs, k, FALSE, resp)
          /\ IF Mounted(k)
             THEN /\ error' = DeleteErrorMessage(DeleteFailure(resp))
                  /\ deleteLoading' = FALSE
                  /\ UNCHANGED <<employees, loading, showSuccessModal, formData>>
             ELSE UNCHANGED dash
  /\ event' = NoEvent
  /\ UNCHANGED <<history, screen, locationState, inst, clicks>>

\* the re-fetch of request k settles with resp: the fetchEmployees awaited
\* by handleDeleteEmployee resumes and returns, then handleDeleteEmployee's
\* finally runs (same task, nothing is rendered or clicked in between)
RefetchSettled(k, resp) ==
  /\ InFlight(k)
  /\ reqs[k].method = "GET"
  /\ reqs[k].trigger # 0
  /\ resp \in ListResponses
  /\ reqs' = Settle(reqs, k, FetchFailure(resp) = <<>>, resp)
  /\ consumed' = Consumed(k, resp)
  /\ IF Mounted(k)
     THEN LET r == FetchEmployeesResult(resp)
          IN  /\ employees' = r.employees
              /\ error' = r.error
              /\ loading' = r.loading
              /\ deleteLoading' = FALSE
              /\ UNCHANGED <<showSuccessModal, formData>>
     ELSE UNCHANGED dash
  /\ event' = NoEvent
  /\ UNCHANGED <<history, screen, locationState, inst, clicks>>

\* ---------------------------------------------------- Creator and Editor
\* disabled={loading} of the Cancel and of the Submit button of a form
CancelDisabled == loading
\* the Submit button never disabled
SubmitDisabledNever == FALSE

SubmitDisabled == loading

\* {loading ? "Creating..." : "Submit"} / {loading ? "Updating..." : "Submit"}
SubmitLabel ==
  IF ~loading THEN "Submit"
  ELSE IF screen = "create" THEN "Creating..." ELSE "Updating..."

\* the form of EditEmployee is rendered (not the 'No Employee Data' view)
EditFormShown == screen = "edit" /\ locationState # NoState

\* a change event that sets the field and keeps the error message
HandleInputChangeKeepsError(fields, name, value) ==
  /\ name \in fields
  /\ value \in Inputs(name)
  /\ value # formData[name]
  /\ formData' = [formData EXCEPT ![name] = value]
  /\ event' = NoEvent
  /\ consumed' = Nothing
  /\ UNCHANGED <<history, screen, locationState, inst, employees, loading, error,
                 deleteLoading, showSuccessModal, reqs, clicks>>

\* a change event that also rewrites the payload of the submit in flight
HandleInputChangeRewritesRequest(fields, name, value) ==
  /\ name \in fields
  /\ value \in Inputs(name)
  /\ value # formData[name]
  /\ formData' = [formData EXCEPT ![name] = value]
  /\ error' = NoError
  /\ event' = NoEvent
  /\ consumed' = Nothing
  /\ reqs' = [k \in 1..Len(reqs) |->
                IF InFlight(k) /\ Mounted(k) /\ reqs[k].method \in {"POST", "PATCH"}
                THEN [reqs[k] EXCEPT !.body.name = formData'.name,
                                     !.body.department = formData'.department,
                                     !.body.status = formData'.status]
                ELSE reqs[k]]
  /\ UNCHANGED <<history, screen, locationState, inst, employees, loading,
                 deleteLoading, showSuccessModal, clicks>>

\* handleInputChange (the same in both forms) on a change event of the
\* control called name whose value became value
HandleInputChange(fields, name, value) ==
  /\ name \in fields
  /\ value \in Inputs(name)
  /\ value # formData[name]
  /\ formData' = [formData EXCEPT ![name] = value]
  /\ error' = NoError
  /\ event' = NoEvent
  /\ consumed' = Nothing
  /\ UNCHANGED <<history, screen, locationState, inst, employees, loading,
                 deleteLoading, showSuccessModal, reqs, clicks>>

CreateHandleInputChange(name, value) ==
  /\ screen = "create"
  /\ HandleInputChange(CreateFields, name, value)

EditHandleInputChange(name, value) ==
  /\ EditFormShown
  /\ HandleInputChange(EditFields, name, value)

\* handleSubmit up to its await for a request r: setLoading(true),
\* setError(null), fetch
SubmitRequest(r) ==
  /\ Room
  /\ loading' = TRUE
  /\ error' = NoError
  /\ reqs' = Append(reqs, r)
  /\ UNCHANGED <<history, screen, locationState, inst, employees, deleteLoading,
                 showSuccessModal, formData, clicks>>

\* the Submit button of CreateEmployee is activated: the browser dispatches
\* submit only if the form validates; handleSubmit then builds submitData
\* (toISOString throws on an Invalid Date: catch and finally run at once)
\* and issues the POST
CreateHandleSubmit ==
  /\ screen = "create"
  /\ ~SubmitDisabled
  /\ consumed' = Nothing
  /\ IF ~FormValid(CreateFields)
     THEN /\ event' = [name |-> "submit"]
          /\ UNCHANGED <<history, screen, locationState, inst, dash, reqs, clicks>>
     ELSE /\ event' = NoEvent
          /\ IF InvalidDate(formData.dateOfJoining)
             THEN /\ error' = CreateErrorMessage(InvalidTime)
                  /\ loading' = FALSE
                  /\ UNCHANGED <<history, screen, locationState, inst, employees,
                                 deleteLoading, showSuccessModal, formData,
                                 reqs, clicks>>
             ELSE SubmitRequest([Request("POST", 0, inst, 0)
                                   EXCEPT !.body = CreateSubmitData(formData)])

\* the update addressed by a field of the draft, not by the injected record
EditHandleSubmitByDraft ==
  /\ EditFormShown
  /\ ~SubmitDisabled
  /\ consumed' = Nothing
  /\ IF ~FormValid(EditFields)
     THEN /\ event' = [name |-> "submit"]
          /\ UNCHANGED <<history, screen, locationState, inst, dash, reqs, clicks>>
     ELSE /\ event' = NoEvent
          /\ SubmitRequest([Request("PATCH", ParseInt(formData.managerId), inst, 0)
                             EXCEPT !.body = EditSubmitData(formData)])

\* the Submit button of EditEmployee is activated
EditHandleSubmit ==
  /\ EditFormShown
  /\ ~SubmitDisabled
  /\ consumed' = Nothing
  /\ IF ~FormValid(EditFields)
     THEN /\ event' = [name |-> "submit"]
          /\ UNCHANGED <<history, screen, locationState, inst, dash, reqs, clicks>>
     ELSE /\ event' = NoEvent
          /\ SubmitRequest([Request("PATCH", locationState.id, inst, 0)
                             EXCEPT !.body = EditSubmitData(formData)])

\* handleSubmit without its finally block: loading is cleared on success only
SubmitResultNoFinally(succeeded, message) ==
  [showSuccessModal |-> IF succeeded THEN TRUE ELSE showSuccessModal,
   error            |-> IF succeeded THEN error ELSE message,
   loading          |-> IF succeeded THEN FALSE ELSE loading]

\* handleSubmit after its await, on resp: the state it leaves, given that
\* the response counts as success (succeeded) or the message to set
SubmitResult(succeeded, message) ==
  [showSuccessModal |-> IF succeeded THEN TRUE ELSE showSuccessModal,
   error            |-> IF succeeded THEN error ELSE message,
   loading          |-> FALSE]

\* the failure handling also clearing the form
SubmitSettledClearsForm(k, resp, succeeded, message) ==
  /\ InFlight(k)
  /\ resp \in SubmitResponses
  /\ reqs' = Settle(reqs, k, succeeded, resp)
  /\ consumed' = Consumed(k, resp)
  /\ event' = NoEvent
  /\ IF Mounted(k)
     THEN LET r == SubmitResult(succeeded, message)
          IN  /\ showSuccessModal' = r.showSuccessModal
              /\ error' = r.error
              /\ loading' = r.loading
              /\ formData' = IF succeeded THEN formData
                             ELSE [f \in DOMAIN formData |-> <<>>]
              /\ UNCHANGED <<employees, deleteLoading>>
     ELSE UNCHANGED dash
  /\ UNCHANGED <<history, screen, locationState, inst, clicks>>

\* the fetch of request k settles with resp and handleSubmit resumes: try,
\* catch, finally
SubmitSettled(k, resp, succeeded, message) ==
  /\ InFlight(k)
  /\ resp \in SubmitResponses
  /\ reqs' = Settle(reqs, k, succeeded, resp)
  /\ consumed' = Consumed(k, resp)
  /\ event' = NoEvent
  /\ IF Mounted(k)
     THEN LET r == SubmitResult(succeeded, message)
          IN  /\ showSuccessModal' = r.showSuccessModal
              /\ error' = r.error
              /\ loading' = r.loading
              /\ UNCHANGED <<employees, deleteLoading, formData>>
     ELSE UNCHANGED dash
  /\ UNCHANGED <<history, screen, locationState, inst, clicks>>

\* the POST of request k settles with resp
CreateSettled(k, resp) ==
  /\ reqs[k].method = "POST"
  /\ SubmitSettled(k, resp, CreateSucceeded(resp),
                   CreateErrorMessage(SubmitFailure(resp)))

\* the PATCH of request k settles with resp
EditSettled(k, resp) ==
  /\ reqs[k].method = "PATCH"
  /\ SubmitSettled(k, resp, EditSucceeded(resp),
                   EditErrorMessage(SubmitFailure(resp)))

\* clearForm keeping what was typed
ClearFormKeeps == formData

\* clearForm: the formData it sets
ClearForm == CreateInitialFormData

\* "Create New Employee" of the success modal
HandleCreateNewEmployee ==
  /\ screen = "create"
  /\ showSuccessModal
  /\ showSuccessModal' = FALSE
  /\ formData' = ClearForm
  /\ consumed' = Nothing
  /\ event' = NoEvent
  /\ UNCHANGED <<history, screen, locationState, inst, employees, loading, error,
                 deleteLoading, reqs, clicks>>

\* "Go Back" of the success modal of CreateEmployee: navigate("/")
CreateHandleGoBack ==
  /\ screen = "create"
  /\ showSuccessModal
  /\ NavigateHome
  /\ event' = [name |-> "return"]

\* Cancel of CreateEmployee: navigate("/")
CreateHandleCancel ==
  /\ screen = "create"
  /\ ~CancelDisabled
  /\ NavigateHome
  /\ event' = NoEvent

\* "Go Back" of the success modal of EditEmployee: navigate("/")
EditHandleGoBack ==
  /\ EditFormShown
  /\ showSuccessModal
  /\ NavigateHome
  /\ event' = [name |-> "return"]

\* Cancel of EditEmployee: navigate("/")
EditHandleCancel ==
  /\ EditFormShown
  /\ ~CancelDisabled
  /\ NavigateHome
  /\ event' = NoEvent

\* the 'No Employee Data' view of EditEmployee is rendered
EditNoDataShown == screen = "edit" /\ locationState = NoState

\* the mount effect of an EditEmployee without employeeData: navigate("/")
\* (it runs once the first render, the 'No Employee Data' view, is committed)
EditNoDataRedirect ==
  /\ EditNoDataShown
  /\ NavigateHome
  /\ event' = [name |-> "redirect"]

\* "Go Back to Dashboard" of the 'No Employee Data' view: handleCancel
EditNoDataHandleCancel ==
  /\ EditNoDataShown
  /\ NavigateHome
  /\ event' = NoEvent

\* ------------------------------------------------------ browser history
\* <EditEmployee /> mounts with location.state.employee = st: with a record
\* its effect pre-fills formData, without one the view above is rendered
MountEditEmployee(st) ==
  MountForm("edit", st, IF st = NoState THEN EditInitialFormData ELSE Prefill(st))

\* a traversal that finds no state in the entry it lands on
TraverseDropsState(d) ==
  /\ history # Untracked
  /\ history.index + d \in 1..Len(history.entries)
  /\ LET entry == history.entries[history.index + d]
     IN  CASE entry.path = "/" -> MountDashboard
           [] entry.path = "/create-employee" ->
                /\ MountForm("create", NoState, CreateInitialFormData)
                /\ UNCHANGED <<inst, clicks>>
           [] entry.path = "/edit-employee" ->
                /\ MountEditEmployee(NoState)
                /\ UNCHANGED <<inst, clicks>>
  /\ history' = [history EXCEPT !.index = @ + d]
  /\ consumed' = Nothing
  /\ event' = NoEvent

\* the browser moves d entries along the session history (popstate): the
\* router's location becomes that entry, with the state kept in it, and the
\* component of its route mounts
Traverse(d) ==
  /\ history # Untracked
  /\ history.index + d \in 1..Len(history.entries)
  /\ LET entry == history.entries[history.index + d]
     IN  CASE entry.path = "/" -> MountDashboard
           [] entry.path = "/create-employee" ->
                /\ MountForm("create", NoState, CreateInitialFormData)
                /\ UNCHANGED <<inst, clicks>>
           [] entry.path = "/edit-employee" ->
                /\ MountEditEmployee(entry.state)
                /\ UNCHANGED <<inst, clicks>>
  /\ history' = [history EXCEPT !.index = @ + d]
  /\ consumed' = Nothing
  /\ event' = NoEvent

\* the Back and the Forward button of the browser
HistoryBack ==
  /\ history.index > 1
  /\ Traverse(-1)

HistoryForward ==
  /\ history.index < Len(history.entries)
  /\ Traverse(1)

\* ------------------------------------------------------------------ Next
\* the program with the forms left idle: the list and delete workflows
Next ==
  \/ HandleCreateEmployee
  \/ \E id \in Ids : HandleEditEmployee(id)
  \/ \E id \in Ids : HandleDeleteEmployee(id)
  \/ HandleCloseSuccessModal
  \/ \E k \in 1..Len(reqs) : \E resp \in ListResponses : FetchEmployeesSettled(k, resp)
  \/ \E k \in 1..Len(reqs) : \E resp \in DeleteResponses : DeleteSettled(k, resp)
  \/ \E k \in 1..Len(reqs) : \E resp \in ListResponses : RefetchSettled(k, resp)
  \/ CreateHandleCancel
  \/ EditHandleCancel

Spec == Init /\ [][Next]_vars

\* the program with the delete workflow left out: the list, create and
\* update workflows
FormNext ==
  \/ HandleCreateEmployee
  \/ \E id \in Ids : HandleEditEmployee(id)
  \/ \E k \in 1..Len(reqs) : \E resp \in ListResponses : FetchEmployeesSettled(k, resp)
  \/ \E name \in CreateFields : \E value \in Inputs(name) : CreateHandleInputChange(name, value)
  \/ CreateHandleSubmit
  \/ \E k \in 1..Len(reqs) : \E resp \in SubmitResponses : CreateSettled(k, resp)
  \/ HandleCreateNewEmployee
  \/ CreateHandleGoBack
  \/ CreateHandleCancel
  \/ \E name \in EditFields : \E value \in Inputs(name) : EditHandleInputChange(name, value)
  \/ EditHandleSubmit
  \/ \E k \in 1..Len(reqs) : \E resp \in SubmitResponses : EditSettled(k, resp)
  \/ EditHandleGoBack
  \/ EditHandleCancel

FormSpec == Init /\ [][FormNext]_vars

\* the app is opened in a new tab at the URL of any of its routes (a deep
\* link carries no state): the component of the route mounts
NavInit ==
  /\ screen \in {"dashboard", "create", "edit"}
  /\ locationState = NoState
  /\ inst = IF screen = "dashboard" THEN 1 ELSE 0
  /\ employees = <<>>
  /\ loading = (screen = "dashboard")
  /\ error = NoError
  /\ deleteLoading = FALSE
  /\ showSuccessModal = FALSE
  /\ formData = CASE screen = "dashboard" -> NoFormData
                   [] screen = "create" -> CreateInitialFormData
                   [] screen = "edit" -> EditInitialFormData
  /\ reqs = IF screen = "dashboard" THEN <<Request("GET", 0, 1, 0)>> ELSE <<>>
  /\ clicks = <<>>
  /\ consumed = Nothing
  /\ event = NoEvent
  /\ history = [entries |-> <<Entry(CHOOSE path \in Routes : RouteOf(path) = screen,
                                    NoState)>>,
                index   |-> 1]

\* the program with the forms left idle and the browser's Back and Forward:
\* navigation between the screens
NavNext ==
  \/ HandleCreateEmployee
  \/ \E id \in Ids : HandleEditEmployee(id)
  \/ \E k \in 1..Len(reqs) : \E resp \in ListResponses : FetchEmployeesSettled(k, resp)
  \/ CreateHandleCancel
  \/ EditHandleCancel
  \/ EditNoDataRedirect
  \/ EditNoDataHandleCancel
  \/ HistoryBack
  \/ HistoryForward

NavSpec == NavInit /\ [][NavNext]_vars

\* what a user types into the required fields of the Creator
Typed ==
  [name |-> <<"Ann">>, dateOfJoining |-> <<"2025-08-22">>, department |-> <<"IT">>,
   salary |-> <<"7", ".", "5">>, managerId |-> <<"1", "2">>]

\* the required fields of the Creator in the order the form shows them
FieldOrder == <<"name", "dateOfJoining", "department", "salary", "managerId">>

\* the whole workflow of the three screens from the Dashboard at "/": list,
\* delete, create and update (the Creator's required fields are filled in
\* from top to bottom and its status is switched at any time, the Editor's
\* draft is submitted as prefilled)
LiveNext ==
  \/ HandleCreateEmployee
  \/ \E id \in Ids : HandleEditEmployee(id)
  \/ \E id \in Ids : HandleDeleteEmployee(id)
  \/ HandleCloseSuccessModal
  \/ \E k \in 1..Len(reqs) : \E resp \in ListResponses : FetchEmployeesSettled(k, resp)
  \/ \E k \in 1..Len(reqs) : \E resp \in DeleteResponses : DeleteSettled(k, resp)
  \/ \E k \in 1..Len(reqs) : \E resp \in ListResponses : RefetchSettled(k, resp)
  \/ \E n \in 1..Len(FieldOrder) :
        /\ screen = "create"
        /\ \A m \in 1..(n - 1) : formData[FieldOrder[m]] # <<>>
        /\ CreateHandleInputChange(FieldOrder[n], Typed[FieldOrder[n]])
  \/ \E value \in Inputs("status") : CreateHandleInputChange("status", value)
  \/ CreateHandleSubmit
  \/ \E k \in 1..Len(reqs) : \E resp \in SubmitResponses : CreateSettled(k, resp)
  \/ HandleCreateNewEmployee
  \/ CreateHandleGoBack
  \/ CreateHandleCancel
  \/ EditHandleSubmit
  \/ \E k \in 1..Len(reqs) : \E resp \in SubmitResponses : EditSettled(k, resp)
  \/ EditHandleGoBack
  \/ EditHandleCancel

\* the most requests the log can hold: each one issued by a mount or a click
\* and, for each delete, its re-fetch
MaxLog == 2 * MaxRequests

\* the fetch of request k settles: its promise is fulfilled with a response
\* or rejected, and the handler awaiting it resumes
ResponseArrives(k) ==
  /\ k \in 1..Len(reqs)
  /\ \/ \E resp \in ListResponses : FetchEmployeesSettled(k, resp)
     \/ \E resp \in DeleteResponses : DeleteSettled(k, resp)
     \/ \E resp \in ListResponses : RefetchSettled(k, resp)
     \/ \E resp \in SubmitResponses : CreateSettled(k, resp)
     \/ \E resp \in SubmitResponses : EditSettled(k, resp)

\* the workflow under a network that settles every fetch: no request stays
\* on the wire for ever
LiveSpec ==
  /\ Init
  /\ [][LiveNext]_vars
  /\ \A k \in 1..MaxLog : WF_vars(ResponseArrives(k))

TypeOK ==
  /\ screen \in {"dashboard", "create", "edit"}
  /\ inst \in 0..MaxMounts
  /\ history.index \in 0..Len(history.entries)
  /\ \A i \in 1..Len(history.entries) :
        /\ history.entries[i].path \in Routes
        /\ i < Len(history.entries) =>
              history.entries[i].path # history.entries[i + 1].path
  /\ history # Untracked => RouteOf(history.entries[history.index].path) = screen
  /\ Cardinality(UserRequests) <= MaxRequests
  /\ Len(reqs) <= 2 * MaxRequests
  /\ loading \in BOOLEAN /\ deleteLoading \in BOOLEAN /\ showSuccessModal \in BOOLEAN
  /\ screen = "dashboard" => formData = NoFormData
  /\ screen = "create" => \A f \in CreateFields : formData[f] \in Inputs(f)
  /\ EditFormShown =>
        \A f \in EditFields : formData[f] \in Inputs(f) \cup {Prefill(locationState)[f]}
  /\ EditNoDataShown => formData = EditInitialFormData

\* ======================================================================
\* Properties
\* ======================================================================

\* msg contains the tokens of sub, in order and adjacent
Contains(msg, sub) ==
  \E i \in 1..(Len(msg) - Len(sub) + 1) : SubSeq(msg, i, i + Len(sub) - 1) = sub

\* the documented success of List: 200 with a JSON array
ListSucceeded(resp) == resp.type = "status" /\ resp.status = 200 /\ resp.parses

\* a list fetch failed by transport rejection or by an unsuccessful status
ListFailed(resp) ==
  \/ resp.type = "reject"
  \/ resp.type = "status" /\ (resp.status < 200 \/ resp.status > 299)

\* a DELETE failed: transport rejection or any status other than 204
DeleteFailed(resp) ==
  \/ resp.type = "reject"
  \/ resp.type = "status" /\ resp.status # 204

\* the text of the underlying cause of a failed request
CauseText(resp) ==
  IF resp.type = "reject" THEN <<resp.cause>> ELSE <<ToString(resp.status)>>

ListFetches == {k \in 1..Len(reqs) : reqs[k].method = "GET"}
Deletes == {k \in 1..Len(reqs) : reqs[k].method = "DELETE"}

\* the row of id is displayed
RowOf(id) == \E i \in Rows : employees[i].id = id

\* C1: whenever a list fetch of the Dashboard shown succeeds with N records,
\* the Dashboard ends not loading, without error message and holding exactly
\* those records: N >= 1 gives a table of exactly N rows, N = 0 gives the
\* 'No data available' message and no error.
C1_FetchSuccessLoads ==
  \A k \in ListFetches :
     (consumed.k = k /\ Mounted(k) /\ ListSucceeded(consumed.resp)) =>
        LET data == consumed.resp.body
        IN  /\ ~loading /\ ~ShowLoading
            /\ error = NoError /\ ~ShowError
            /\ employees = data
            /\ Len(data) >= 1 => (ShowTable /\ ~ShowNoData /\ Rows = 1..Len(data))
            /\ Len(data) = 0 => (ShowNoData /\ ~ShowTable)

\* a re-fetch after a delete has replaced two held records by one
C1_Witness ==
  \E k \in ListFetches :
     /\ consumed.k = k /\ Mounted(k) /\ ListSucceeded(consumed.resp)
     /\ reqs[k].trigger # 0 /\ reqs[1].inst = inst
     /\ ShowTable /\ Len(employees) = 1

\* C2: whenever a list fetch of the Dashboard shown fails, by transport
\* rejection or by an unsuccessful status, the Dashboard ends not loading
\* and in error, with a message that contains 'Failed to fetch employees'
\* and the text of the underlying cause.
C2_FetchFailureShowsError ==
  \A k \in ListFetches :
     (consumed.k = k /\ Mounted(k) /\ ListFailed(consumed.resp)) =>
        /\ ~loading /\ ~ShowLoading
        /\ ShowError
        /\ Contains(error, <<"Failed to fetch employees">>)
        /\ Contains(error, CauseText(consumed.resp))

\* the mount fetch of the Dashboard shown got a 500 and its message is up
C2_Witness ==
  /\ consumed.k = 1 /\ Mounted(1)
  /\ consumed.resp.type = "status" /\ consumed.resp.status = 500
  /\ ShowError /\ ~loading
  /\ Contains(error, <<"500">>)

\* the n-th DELETE request issued
NthDelete(n) ==
  CHOOSE k \in Deletes : Cardinality({j \in Deletes : j <= k}) = n

\* the re-fetches issued on behalf of DELETE k
Refetches(k) == {j \in 1..Len(reqs) : reqs[j].trigger = k}

\* C3: each Delete(id) action issues exactly one DELETE, addressed to
\* /api/employees/{id}; when it succeeds (204) the confirmation is shown on
\* the Dashboard that issued it and exactly one GET /api/employees is issued
\* after it; when it fails no re-fetch is issued.
C3_DeleteProtocol ==
  /\ Cardinality(Deletes) = Len(clicks)
  /\ \A n \in 1..Len(clicks) :
        /\ reqs[NthDelete(n)].id = clicks[n].id
        /\ reqs[NthDelete(n)].inst = clicks[n].inst
        /\ Path(reqs[NthDelete(n)]) = <<"/api/employees/", clicks[n].id>>
  /\ \A k \in Deletes :
        /\ Cardinality(Refetches(k)) <= 1
        /\ reqs[k].status # "ok" => Refetches(k) = {}
        /\ \A j \in Refetches(k) :
              j > k /\ reqs[j].method = "GET" /\ Path(reqs[j]) = <<"/api/employees">>
        /\ consumed.k = k =>
              IF consumed.resp.type = "status" /\ consumed.resp.status = 204
              THEN /\ Refetches(k) = {Len(reqs)}
                   /\ InFlight(Len(reqs))
                   /\ Mounted(k) => showSuccessModal
              ELSE Refetches(k) = {}

\* a Delete(id) got 204: the confirmation is up and its re-fetch is on the wire
C3_Witness ==
  \E k \in Deletes :
     /\ consumed.k = k /\ Mounted(k) /\ reqs[k].status = "ok" /\ showSuccessModal
     /\ \E j \in Refetches(k) : InFlight(j)

\* C4 as stated: while Delete(id) is in flight only the delete control of
\* the row with that id is disabled; the control of every other row stays
\* enabled (so a Delete for a different id can be issued).
C4_OnlyOwnRowDisabled ==
  \A k \in BusyDeletes :
     /\ RowOf(reqs[k].id) => DeleteDisabled(reqs[k].id)
     /\ \A id \in Ids \ {reqs[k].id} : RowOf(id) => (~DeleteDisabled(id) /\ CanDelete(id))

\* C4, amended: while a Delete(id) is in flight the delete control of every
\* displayed row is disabled, that of the row with that id and those of all
\* other rows, and no Delete for any id can be issued from that Dashboard
\* before it has resolved.
C4_AllRowsDisabled ==
  \A k \in BusyDeletes :
     /\ \A id \in Ids : RowOf(id) => DeleteDisabled(id)
     /\ \A id \in Ids : ~CanDelete(id)
     /\ Cardinality(BusyDeletes) = 1

\* Delete(1) is in flight and the row of record 2 is displayed, disabled
C4_Witness ==
  \E k \in BusyDeletes :
     /\ reqs[k].id = 1 /\ RowOf(1) /\ RowOf(2)
     /\ DeleteDisabled(2)

\* C5: while a delete request is in flight, the table is displayed with one
\* row per held record and the delete control of every row shows
\* 'Deleting...'.
C5_AllRowsShowDeleting ==
  \A k \in BusyDeletes :
     /\ Len(employees) > 0
     /\ Rows = 1..Len(employees)
     /\ \A i \in Rows : DeleteLabel(employees[i].id) = "Deleting..."

\* a DELETE is on the wire while two rows are displayed, both 'Deleting...'
C5_Witness ==
  \E k \in BusyDeletes :
     /\ Cardinality(Rows) = 2
     /\ \A i \in Rows : DeleteLabel(employees[i].id) = "Deleting..."

\* C6: for every id, at most one DELETE for that id issued by one Dashboard
\* is in flight at any time; while it is, the delete control of the row of
\* that id cannot be activated.
C6_OneDeletePerId ==
  /\ \A id \in Ids : \A i \in 1..MaxMounts :
        Cardinality({k \in Deletes :
                       reqs[k].id = id /\ reqs[k].inst = i /\ InFlight(k)}) <= 1
  /\ \A k \in BusyDeletes : RowOf(reqs[k].id) => DeleteDisabled(reqs[k].id)

\* the only displayed row is the one whose Delete is in flight
C6_Witness ==
  \E k \in BusyDeletes :
     /\ Len(employees) = 1 /\ RowOf(reqs[k].id)
     /\ DeleteDisabled(reqs[k].id)

\* C7: when a Delete(id) fails, the held records are exactly what they were
\* before (the record with that id is still held) and an error message
\* naming the delete action and embedding the cause is set.
C7_FailedDeleteKeepsRecords ==
  [][\A k \in Deletes :
       (consumed'.k = k /\ Mounted(k) /\ DeleteFailed(consumed'.resp)) =>
          /\ employees' = employees
          /\ \E i \in 1..Len(employees') : employees'[i].id = reqs[k].id
          /\ ShowError'
          /\ Contains(error', <<"Failed to delete employee">>)
          /\ Contains(error', CauseText(consumed'.resp))]_vars

\* a Delete failed on the Dashboard shown, which still holds both records
C7_Witness ==
  \E k \in Deletes :
     /\ consumed.k = k /\ Mounted(k) /\ reqs[k].status = "fail"
     /\ Len(employees) = 2
     /\ \E i \in 1..Len(employees) : employees[i].id = reqs[k].id
     /\ Contains(error, <<"Failed to delete employee">>)

\* no handler of the Dashboard shown is awaiting anything
Quiescent == \A k \in 1..Len(reqs) : Mounted(k) => ~InFlight(k)

\* C8: after a Delete(id) has failed the user can retry it from the same
\* screen: once the failure has been handled, the Dashboard (not left since)
\* offers the delete control of that record again.
C8_RetryAvailable ==
  \A k \in Deletes :
     (Mounted(k) /\ reqs[k].status = "fail" /\ Quiescent) => CanDelete(reqs[k].id)

\* what the code does instead: after a failed Delete no delete control is
\* offered by that Dashboard ever again
C8_NoRetryOffered ==
  \A k \in Deletes :
     (Mounted(k) /\ reqs[k].status = "fail") =>
        /\ ShowError /\ ~ShowTable
        /\ \A id \in Ids : ~CanDelete(id)

\* C9 as stated: after any failed list fetch, on mount or after a successful
\* delete, the held records are empty and the table is not rendered.
C9_FailedFetchLeavesEmpty ==
  \A k \in ListFetches :
     (consumed.k = k /\ Mounted(k) /\ ListFailed(consumed.resp)) =>
        /\ employees = <<>>
        /\ ~ShowTable

\* C9, amended: after any failed list fetch the table is not rendered and
\* the held records are what they were before the fetch: empty after the
\* failed fetch on mount, the records held before the delete after a failed
\* re-fetch.
C9_FailedFetchHidesTable ==
  [][\A k \in ListFetches :
       (consumed'.k = k /\ Mounted(k) /\ ListFailed(consumed'.resp)) =>
          /\ ~ShowTable'
          /\ employees' = employees
          /\ reqs[k].trigger = 0 => employees' = <<>>
          /\ reqs[k].trigger # 0 => Len(employees') > 0]_vars

\* the re-fetch after a successful delete failed: records held, no table
C9_Witness ==
  \E k \in ListFetches :
     /\ consumed.k = k /\ Mounted(k) /\ ListFailed(consumed.resp)
     /\ reqs[k].trigger # 0
     /\ Len(employees) > 0 /\ ~ShowTable /\ ShowError

\* the list fetches of the Dashboard shown whose handler has finished
CompletedFetches ==
  {k \in ListFetches : reqs[k].inst = inst /\ ~InFlight(k)}

\* C10: 'No data available' is shown only if the most recently completed
\* list fetch of the Dashboard succeeded and returned zero records; never
\* while loading, while an error message is set, or before a fetch succeeded.
C10_NoDataOnlyAfterEmptySuccess ==
  ShowNoData =>
     /\ ~ShowLoading /\ ~ShowError
     /\ CompletedFetches # {}
     /\ LET last == CHOOSE k \in CompletedFetches : \A j \in CompletedFetches : j <= k
        IN  reqs[last].status = "ok" /\ reqs[last].empty

\* the re-fetch after a delete returned no records: the empty-state is up
C10_Witness ==
  /\ ShowNoData
  /\ \E k \in CompletedFetches : reqs[k].trigger # 0 /\ reqs[k].status = "ok" /\ reqs[k].empty

\* C11: for the List operation a response with any status other than 200 is
\* treated as a failure: the Dashboard ends in error and its records are not
\* replaced by the response body.
C11_Non200ListFails ==
  [][\A k \in ListFetches :
       (consumed'.k = k /\ Mounted(k) /\ consumed'.resp.type = "status"
          /\ consumed'.resp.status # 200) =>
          /\ ShowError'
          /\ employees' = employees]_vars

\* the documented success status of the operation a request performs
Documented(m) ==
  CASE m = "POST" -> 201 [] m = "PATCH" -> 200 [] m = "DELETE" -> 204 [] OTHER -> 200

Mutations == {k \in 1..Len(reqs) : reqs[k].method \in {"POST", "PATCH", "DELETE"}}

\* C12: when a create, update or delete request of the mounted screen is
\* answered with a status, the screen enters its success state (confirmation
\* shown, no error message) if and only if the status is exactly the
\* documented one (201, 200, 204); on every other status, other 2xx codes
\* included, it sets an error message carrying that status and does not
\* raise the confirmation.
C12_ExactStatusDecides ==
  [][\A k \in Mutations :
       (consumed'.k = k /\ Mounted(k) /\ consumed'.resp.type = "status") =>
          IF consumed'.resp.status = Documented(reqs[k].method)
          THEN /\ showSuccessModal'
               /\ error' = NoError
               /\ reqs'[k].status = "ok"
          ELSE /\ error' # NoError
               /\ Contains(error', <<ToString(consumed'.resp.status)>>)
               /\ showSuccessModal' = showSuccessModal
               /\ reqs'[k].status = "fail"]_vars

\* a create request was answered 200, another 2xx code: the Creator shows the
\* error and no confirmation
C12_Witness ==
  \E k \in Mutations :
     /\ consumed.k = k /\ Mounted(k) /\ reqs[k].method = "POST"
     /\ consumed.resp.type = "status" /\ consumed.resp.status = 200
     /\ error # NoError /\ ~showSuccessModal /\ ~loading

\* the Dashboard holds a record of that id
Held(id) == \E i \in 1..Len(employees) : employees[i].id = id

\* the requests awaited
Awaited == {k \in 1..Len(reqs) : InFlight(k)}

\* C13: Select-for-edit(id) for an id present in the held records issues no
\* network request and navigates to the Editor, which receives exactly the
\* held record of that id, unmodified.
C13_SelectForEditHandsHeldRecord ==
  [][\A id \in Ids :
       (HandleEditEmployee(id) /\ Held(id)) =>
          /\ screen' = "edit"
          /\ \E i \in 1..Len(employees) :
                employees[i].id = id /\ locationState' = employees[i]
          /\ Len(reqs') = Len(reqs)
          /\ Awaited' = Awaited]_vars

\* the Editor has just been entered with record 2 of a Dashboard that held
\* records 1 and 2
C13_Witness ==
  /\ screen = "edit"
  /\ locationState = Employee(2)
  /\ formData = Prefill(Employee(2))
  /\ Len(reqs) = 1 /\ reqs[1].status = "done"

\* C14: Select-for-edit(id) for an id that is not in the held records is a
\* silent no-op: no navigation, the Editor is not reached, no record is
\* handed over, no error is set, no request is issued and the Dashboard's
\* state is unchanged.
C14_SelectForEditMissIsNoOp ==
  [][\A id \in Ids :
       (HandleEditEmployee(id) /\ ~Held(id)) =>
          /\ screen' = "dashboard"
          /\ locationState' = locationState /\ locationState' = NoState
          /\ error' = NoError
          /\ UNCHANGED <<inst, dash, reqs, clicks>>]_vars

\* Select-for-edit(2) was performed on a Dashboard that holds record 1 only,
\* and the table is still displayed
C14_Witness ==
  /\ event = [name |-> "edit", id |-> 2]
  /\ ShowTable /\ Len(employees) = 1 /\ ~Held(2)
  /\ locationState = NoState

\* the fields of the Creator's draft that must be populated
CreateRequired == {"name", "dateOfJoining", "department", "salary", "managerId"}

Posts == {k \in 1..Len(reqs) : reqs[k].method = "POST"}
Patches == {k \in 1..Len(reqs) : reqs[k].method = "PATCH"}

\* C15: in the Creator, a submit attempted while a required field (name,
\* dateOfJoining, department, salary, managerId) is empty issues no create
\* request and leaves the Creator's state unchanged; so no create request
\* ever carries an empty required field, department included.
C15_EmptyRequiredBlocksSubmit ==
  [][/\ (CreateHandleSubmit /\ \E f \in CreateRequired : formData[f] = <<>>) =>
           /\ reqs' = reqs
           /\ Posts' = Posts
           /\ UNCHANGED <<screen, locationState, inst, dash, clicks>>
     /\ \A k \in Posts' :
           InFlight(k)' => /\ reqs'[k].body.department # <<>>
                           /\ reqs'[k].body.name # <<>>]_vars

\* a submit was attempted in the Creator with every field populated but
\* department: nothing was sent and nothing changed
C15_Witness ==
  /\ screen = "create"
  /\ event = [name |-> "submit"]
  /\ formData.department = <<>>
  /\ \A f \in CreateRequired \ {"department"} : formData[f] # <<>>
  /\ Posts = {}
  /\ ~loading /\ error = NoError

\* the number a numeric string of the forms denotes, in hundredths for a
\* salary ("7.50" and "7.5" denote 7.5) and as it is for a manager id
SalaryDenoted(s) ==
  CASE s = <<"7", ".", "5", "0">> -> 750
    [] s = <<"7", ".", "5">>      -> 750
ManagerDenoted(s) ==
  CASE s = <<"1", "2">> -> 12

\* the full ISO timestamp of a plain date
Timestamp(d) ==
  CASE d = <<"2025-08-22">> -> <<"2025-08-22", "T00:00:00.000Z">>

\* C16: every create request the Creator issues carries a payload with
\* exactly the keys name, dateOfJoining, department, salary, managerId and
\* status, in which dateOfJoining is the full ISO timestamp of the entered
\* plain date, salary is the number and managerId the integer the entered
\* strings denote, and name, department and status are the draft's values
\* verbatim.
C16_CreatePayload ==
  [][(CreateHandleSubmit /\ Posts' # Posts) =>
        LET body == reqs'[Len(reqs')].body
        IN  /\ Posts' = Posts \cup {Len(reqs')}
            /\ Path(reqs'[Len(reqs')]) = <<"/api/employees">>
            /\ DOMAIN body = {"name", "dateOfJoining", "department", "salary",
                              "managerId", "status"}
            /\ body.dateOfJoining = Timestamp(formData.dateOfJoining)
            /\ body.salary = SalaryDenoted(formData.salary)
            /\ body.managerId = ManagerDenoted(formData.managerId)
            /\ body.name = formData.name
            /\ body.department = formData.department
            /\ body.status = formData.status]_vars

\* a create request is on the wire whose draft reads salary "7.50", manager
\* "12" and status NOT_ACTIVE: it carries 7.5, 12 and the timestamp
C16_Witness ==
  \E k \in Posts :
     /\ InFlight(k) /\ Mounted(k)
     /\ formData.salary = <<"7", ".", "5", "0">>
     /\ reqs[k].body.salary = 750
     /\ reqs[k].body.managerId = 12
     /\ reqs[k].body.dateOfJoining = <<"2025-08-22", "T00:00:00.000Z">>
     /\ reqs[k].body.status = <<"NOT_ACTIVE">>

\* the submits (create or update requests) of the mounted form still awaited
BusySubmits ==
  {k \in Posts \cup Patches : InFlight(k) /\ Mounted(k)}

\* C17: while a submit of the Creator or of the Editor is in flight, both
\* Cancel and Submit are disabled and Submit shows the in-progress label; one
\* form (one visit of the screen) never has two of its requests outstanding:
\* no second submit is issued before the first has resolved.
C17_OneSubmitInFlight ==
  /\ \A k \in BusySubmits :
        /\ CancelDisabled /\ SubmitDisabled
        /\ SubmitLabel = IF reqs[k].method = "POST" THEN "Creating..." ELSE "Updating..."
  /\ \A m \in {"POST", "PATCH"} : \A i \in 1..MaxMounts :
        Cardinality({k \in 1..Len(reqs) :
                       reqs[k].method = m /\ reqs[k].inst = i /\ InFlight(k)}) <= 1

\* the Creator resubmitted after a failed create: the second request is on
\* the wire, the first has resolved and both buttons are disabled
C17_Witness ==
  \E k \in BusySubmits : \E j \in Posts :
     /\ j < k /\ Mounted(j) /\ reqs[j].status = "fail"
     /\ reqs[k].method = "POST"
     /\ CancelDisabled /\ SubmitDisabled /\ SubmitLabel = "Creating..."

\* the states of a form: success (confirmation up, nothing in flight, no
\* error message) and idle (none of the three)
FormSuccess == showSuccessModal /\ ~loading /\ error = NoError
FormIdle == ~showSuccessModal /\ ~loading /\ error = NoError

\* the empty draft: every field empty, status ACTIVE
EmptyDraft ==
  [name |-> <<>>, dateOfJoining |-> <<>>, department |-> <<>>, salary |-> <<>>,
   managerId |-> <<>>, status |-> <<"ACTIVE">>]

\* C18: from the Creator's success state, 'create another' dismisses the
\* confirmation, resets every draft field to empty with status ACTIVE,
\* leaves the Creator idle on the same screen and issues no network request;
\* 'return' navigates to the Directory.
C18_SuccessResolutions ==
  [][/\ (HandleCreateNewEmployee /\ FormSuccess) =>
           /\ ~showSuccessModal'
           /\ formData' = EmptyDraft
           /\ screen' = "create" /\ inst' = inst
           /\ FormIdle'
           /\ reqs' = reqs
     /\ (CreateHandleGoBack /\ FormSuccess) =>
           /\ screen' = "dashboard"
           /\ inst' = inst + 1
           /\ formData' = NoFormData]_vars

\* the Creator is idle with an empty draft after a create that succeeded on
\* this visit: 'create another' was chosen
C18_Witness ==
  /\ screen = "create"
  /\ FormIdle
  /\ formData = EmptyDraft
  /\ Posts # {} /\ Mounted(Len(reqs))
  /\ reqs[Len(reqs)].method = "POST" /\ reqs[Len(reqs)].status = "ok"

\* a request failed: transport rejection, or a status other than the
\* documented one of its operation
Failed(m, resp) ==
  \/ resp.type = "reject"
  \/ resp.type = "status" /\ resp.status # Documented(m)

\* the words by which an error message names the failed action
ActionName(m) ==
  CASE m = "POST" -> <<"Failed to create employee">>
    [] m = "PATCH" -> <<"Failed to edit employee">>

\* C19: when a submit of the mounted Creator or Editor fails (transport
\* rejection or unexpected status), the screen shows an error message naming
\* the action and embedding the cause, the draft is exactly what it was when
\* the response arrived, and Submit (with Cancel) is enabled again.
C19_FailedSubmitKeepsDraft ==
  [][\A k \in Posts \cup Patches :
       (consumed'.k = k /\ Mounted(k) /\ Failed(reqs[k].method, consumed'.resp)) =>
          /\ error' # NoError
          /\ Contains(error', ActionName(reqs[k].method))
          /\ Contains(error', CauseText(consumed'.resp))
          /\ formData' = formData
          /\ ~loading' /\ ~SubmitDisabled' /\ ~CancelDisabled'
          /\ SubmitLabel' = "Submit"
          /\ screen' = screen]_vars

\* an update was rejected by the transport while the draft had been edited
\* after the submit: the Editor shows the error and the edited draft
C19_Witness ==
  \E k \in Patches :
     /\ consumed.k = k /\ Mounted(k) /\ consumed.resp.type = "reject"
     /\ Contains(error, <<"Failed to edit employee">>)
     /\ Contains(error, <<"Network error">>)
     /\ formData.name = <<"Ann">>
     /\ formData # Prefill(locationState)
     /\ ~SubmitDisabled

\* C20: in the Creator and in the Editor, a field edit sets exactly the
\* edited field to the new value, leaves every other draft field unchanged,
\* issues no network request and clears any pending error message: after
\* any edit no error message is set.
C20_FieldEdit ==
  [][\A name \in CreateFields : \A value \in Inputs(name) :
       (CreateHandleInputChange(name, value) \/ EditHandleInputChange(name, value)) =>
          /\ DOMAIN formData' = DOMAIN formData
          /\ formData'[name] = value
          /\ \A other \in DOMAIN formData \ {name} : formData'[other] = formData[other]
          /\ reqs' = reqs
          /\ error' = NoError
          /\ UNCHANGED <<screen, locationState, loading, showSuccessModal>>]_vars

\* the last request of the mounted Creator is a create that failed, nothing
\* is in flight and no error message is set: an edit has cleared it
C20_Witness ==
  /\ screen = "create"
  /\ Posts # {} /\ Mounted(Len(reqs))
  /\ reqs[Len(reqs)].method = "POST" /\ reqs[Len(reqs)].status = "fail"
  /\ error = NoError /\ ~loading
  /\ formData.status = <<"NOT_ACTIVE">>

\* the requests issued by the step
Issued == {k \in 1..Len(reqs') : k > Len(reqs)}

\* C21: an Editor entered without an injected record shows the no-data view;
\* from that view no request is issued by the Editor (the only request a step
\* may issue is the list fetch of the Directory being entered), and the view
\* is left only by an action of the user: the Editor never leaves it on its
\* own.
C21_NoDataViewIsTerminal ==
  [][EditNoDataShown =>
       /\ \A k \in Issued :
             screen' = "dashboard" /\ reqs'[k].method = "GET" /\ reqs'[k].id = 0
       /\ ~EditNoDataShown' => event'.name # "redirect"]_vars

\* C22: every update request the Editor issues carries a payload with exactly
\* the keys name, department, salary, managerId and status, never id or
\* dateOfJoining, in which salary and managerId are the numbers the draft's
\* strings denote and name, department and status are the draft's values,
\* whatever the injected record and the edits made.
C22_UpdatePayload ==
  [][(EditHandleSubmit /\ Patches' # Patches) =>
        LET body == reqs'[Len(reqs')].body
        IN  /\ Patches' = Patches \cup {Len(reqs')}
            /\ DOMAIN body = {"name", "department", "salary", "managerId", "status"}
            /\ "id" \notin DOMAIN body
            /\ "dateOfJoining" \notin DOMAIN body
            /\ body.salary = SalaryDenoted(formData.salary)
            /\ body.managerId = ManagerDenoted(formData.managerId)
            /\ body.salary # NaN /\ body.managerId # NaN
            /\ body.name = formData.name
            /\ body.department = formData.department
            /\ body.status = formData.status]_vars

\* an update is on the wire for a draft whose name and status were edited: it
\* carries the five editable fields, the numbers 7.5 and 12 among them
C22_Witness ==
  \E k \in Patches :
     /\ InFlight(k) /\ Mounted(k)
     /\ reqs[k].body.name = <<"Ann">>
     /\ reqs[k].body.status = <<"NOT_ACTIVE">>
     /\ reqs[k].body.salary = 750
     /\ reqs[k].body.managerId = 12
     /\ DOMAIN reqs[k].body = EditFields

\* the text a form control shows for a value of the record's field
Shown(field, value) ==
  CASE field = "salary" /\ value = 750   -> <<"7", ".", "5">>
    [] field = "managerId" /\ value = 12 -> <<"1", "2">>
    [] OTHER                             -> value

\* what a form field is seeded with from record rec
Seeded(rec, field) ==
  IF field \in DOMAIN rec THEN Shown(field, rec[field])
  ELSE IF field = "status" THEN <<"ACTIVE">>
  ELSE <<>>

\* the records of employee 1 with any of the editable fields left undefined
PartialRecords ==
  {[f \in {"id", "dateOfJoining"} \cup D |-> Employee(1)[f]] : D \in SUBSET EditFields}

\* C23: on entry with an injected record every Editor form field (name,
\* department, salary, managerId, status) is seeded from the record's field of
\* the same name; a field that is undefined on the record becomes the empty
\* string, never the text 'undefined' or 'NaN', except status, which becomes
\* ACTIVE.
C23_PrefillRule ==
  [][/\ (screen # "edit" /\ EditFormShown') =>
          /\ DOMAIN formData' = EditFields
          /\ \A f \in EditFields :
                /\ formData'[f] = Seeded(locationState', f)
                /\ formData'[f] \notin {<<"undefined">>, <<"NaN">>}
     /\ \A rec \in PartialRecords : \A f \in EditFields :
           Prefill(rec)[f] = Seeded(rec, f)]_vars

\* the Editor has just been entered with a record that has neither salary nor
\* managerId: both fields are empty, the others carry the record's values
C23_Witness ==
  /\ EditFormShown
  /\ ~Has(locationState, "managerId") /\ ~Has(locationState, "salary")
  /\ formData.managerId = <<>> /\ formData.salary = <<>>
  /\ formData.name = locationState.name
  /\ formData.status = <<"ACTIVE">>
  /\ history.entries[history.index].state = locationState

\* C24: every update request an Editor issues is a PATCH to
\* /api/employees/{id} where id is the id of the record injected at entry; no
\* field edit changes the injected record, and no step taken in the Editor
\* issues a request for any other id.
C24_UpdateTargetsInjected ==
  [][EditFormShown =>
       /\ \A k \in Issued :
             screen' = "edit" =>
                /\ reqs'[k].method = "PATCH"
                /\ reqs'[k].id = locationState.id
                /\ Path(reqs'[k]) = <<"/api/employees/", locationState.id>>
       /\ screen' = "edit" => locationState' = locationState
       /\ \A k \in Patches :
             Mounted(k) => reqs[k].id = locationState.id]_vars

\* the Editor entered with record 2 sent an update after its manager field
\* was filled in: the request goes to /api/employees/2
C24_Witness ==
  \E k \in Patches :
     /\ InFlight(k) /\ Mounted(k)
     /\ locationState.id = 2
     /\ Path(reqs[k]) = <<"/api/employees/", 2>>
     /\ reqs[k].body.managerId = 12

\* the current entry of the session history
Current(h) == h.entries[h.index]

Left(k) == screen # ScreenOf(reqs[k].method) \/ reqs[k].inst # inst

\* C26: no request is cancelled when a screen is left: a request stays
\* awaited until its own response arrives.  A response that arrives after
\* its screen has been left is discarded: the route shown and every state
\* value of the screen shown (a later instance of the same screen included)
\* stay as they are, so no error message appears and nothing is unmounted.
C26_LateResponseDiscarded ==
  [][\A k \in 1..Len(reqs) :
       /\ (InFlight(k) /\ consumed'.k # k) => InFlight(k)'
       /\ (consumed'.k = k /\ Left(k)) =>
             /\ ~InFlight(k)'
             /\ UNCHANGED <<screen, locationState, inst, dash, clicks>>]_vars

\* a delete issued by a Directory that was left has just failed while a later
\* Directory is mounted: that Directory shows no error and no busy delete
C26_Witness ==
  \E k \in Deletes :
     /\ consumed.k = k /\ Left(k)
     /\ consumed.resp.type = "status" /\ consumed.resp.status = 500
     /\ screen = "dashboard" /\ reqs[k].inst < inst
     /\ error = NoError /\ ~deleteLoading /\ ~showSuccessModal

\* the list fetches issued by the mount effect of the Directory shown
MountFetches == {k \in ListFetches : reqs[k].inst = inst /\ reqs[k].trigger = 0}

\* the list fetches of the Directory shown
OwnFetches == {k \in ListFetches : reqs[k].inst = inst}

\* C27: every entry into Directory (from Creator or Editor, after cancel or
\* success) starts in loading with no records and issues exactly one list
\* fetch; the records a Directory holds are put there only by a list fetch
\* of its own, issued after every create and update request of the visits
\* before it: never a snapshot kept from before them.
C27_EntryRefetches ==
  [][/\ (screen # "dashboard" /\ screen' = "dashboard") =>
           /\ loading' /\ ShowLoading'
           /\ employees' = <<>>
           /\ error' = NoError
           /\ Issued = {Len(reqs')}
           /\ reqs'[Len(reqs')] = Request("GET", 0, inst', 0)
           /\ inst' > inst
     /\ screen' = "dashboard" =>
           /\ Cardinality(MountFetches') = 1
           /\ \A g \in OwnFetches' : \A k \in Posts' \cup Patches' :
                 reqs'[k].inst < inst' => k < g
           /\ employees' # <<>> =>
                 \/ employees' = employees /\ screen = "dashboard"
                 \/ \E g \in OwnFetches' : consumed'.k = g]_vars

\* the Directory has just been entered by 'return' from the confirmation of
\* an update of record 1: it is loading, holds nothing, and its list fetch,
\* the last request issued, is awaited
C27_Witness ==
  \E k \in Patches :
     /\ event = [name |-> "return"]
     /\ screen = "dashboard" /\ inst = 2
     /\ reqs[k].id = 1 /\ ~InFlight(k)
     /\ MountFetches = {Len(reqs)} /\ k < Len(reqs) /\ InFlight(Len(reqs))
     /\ ShowLoading /\ employees = <<>>

\* a form (Creator, or Editor with its record) is mounted
FormShown == screen = "create" \/ EditFormShown

\* C28: in every reachable state the Creator, and likewise the Editor, is in
\* exactly one of idle, submitting, error, success: it never has a submit in
\* flight while the success confirmation is showing, and never shows an error
\* message together with the success confirmation.
C28_ExactlyOneFormState ==
  FormShown =>
     /\ ~(showSuccessModal /\ loading)
     /\ ~(showSuccessModal /\ BusySubmits # {})
     /\ ~(showSuccessModal /\ error # NoError)
     /\ ~(loading /\ error # NoError)

\* C29: no request is ever retried automatically.  A handler that resumes on
\* a response issues nothing, whether the request failed or succeeded, with
\* one exception: on the 204 of a delete it issues the single list re-fetch.
\* Every other request is issued by a step of the user (a Delete click, a
\* Submit) or by the mount of a Directory being entered, one request per step.
C29_NoAutomaticRetry ==
  [][/\ Cardinality(Issued) <= 1
     /\ \A k \in 1..Len(reqs) :
           consumed'.k = k =>
              IF /\ reqs[k].method = "DELETE"
                 /\ consumed'.resp.type = "status" /\ consumed'.resp.status = 204
              THEN /\ Issued = {Len(reqs')}
                   /\ reqs'[Len(reqs')].method = "GET"
                   /\ reqs'[Len(reqs')].trigger = k
              ELSE Issued = {}
     /\ consumed'.k = 0 =>
           \A j \in Issued :
              /\ reqs'[j].trigger = 0
              /\ \/ /\ screen' = "dashboard" /\ inst' > inst
                    /\ reqs'[j].method = "GET" /\ reqs'[j].inst = inst'
                 \/ /\ clicks' # clicks
                    /\ reqs'[j].method = "DELETE"
                 \/ /\ CreateHandleSubmit \/ EditHandleSubmit
                    /\ reqs'[j].method \in {"POST", "PATCH"}]_vars

\* a delete of the Directory shown has just failed on a 500: the error is
\* shown and the failed delete is still the last request issued
C29_Witness ==
  \E k \in Deletes :
     /\ consumed.k = k /\ Mounted(k)
     /\ consumed.resp.type = "status" /\ consumed.resp.status = 500
     /\ k = Len(reqs) /\ reqs[k].status = "fail"
     /\ Awaited = {}
     /\ ShowError

\* C30: every entry into Creator starts with an empty draft whose status is
\* ACTIVE, idle and without error message, and issues no request: nothing
\* edited during an earlier visit (left by Cancel or by return after success)
\* is visible in a later visit.
C30_CreatorStartsEmpty ==
  [][(screen # "create" /\ screen' = "create") =>
        /\ formData' = EmptyDraft
        /\ formData'.status = <<"ACTIVE">>
        /\ FormIdle'
        /\ ~SubmitDisabled' /\ SubmitLabel' = "Submit"
        /\ Issued = {}]_vars

\* the Creator is entered for the second time, after a visit in which a
\* filled-in draft was submitted: its draft is empty and it is idle
C30_Witness ==
  \E k \in Posts :
     /\ screen = "create" /\ inst = 2
     /\ reqs[k].inst = 1 /\ ~InFlight(k)
     /\ formData = EmptyDraft
     /\ FormIdle
     /\ \A j \in Posts : reqs[j].inst = 1

\* the requests of the Directory shown that are still awaited
Outstanding == {k \in 1..Len(reqs) : Mounted(k) /\ InFlight(k)}

\* the list fetch the Directory shown issued last
LastFetch == CHOOSE k \in OwnFetches : \A j \in OwnFetches : j <= k

\* C31 as stated: a mounted Directory has at most one request outstanding at
\* any time, and the records it holds always come from the most recently
\* issued list fetch (read once that fetch has been answered).
C31_HeldFromLastIssuedFetch ==
  screen = "dashboard" =>
     /\ Cardinality(Outstanding) <= 1
     /\ (Len(employees) > 0 /\ Outstanding = {}) =>
           reqs[LastFetch].status = "ok"

\* C31, amended: a mounted Directory has at most one request outstanding at
\* any time: no delete can be issued while one of its requests is in flight,
\* and its list re-fetch is issued only once its delete has been answered.
\* So a list response always belongs to the list fetch issued last, and the
\* records held are replaced only by the response of that fetch; while a
\* re-fetch is in flight, and after it has failed, the records held are still
\* those of the fetch before it.
C31_OneOutstanding ==
  [][screen' = "dashboard" =>
       /\ Cardinality(Outstanding') <= 1
       /\ Outstanding' # {} => \A id \in Ids : ~CanDelete(id)'
       /\ \A k \in Issued : Mounted(k)' => Outstanding' = {k}
       /\ \A k \in ListFetches :
             (consumed'.k = k /\ Mounted(k)) => k = LastFetch
       /\ (screen = "dashboard" /\ employees' # employees) =>
             /\ consumed'.k = LastFetch
             /\ reqs'[LastFetch].status = "ok"
       /\ Len(employees') > 0 => \E k \in OwnFetches' : reqs'[k].status = "ok"]_vars

\* the re-fetch after a delete is the only request outstanding, behind the
\* confirmation, while the Directory still holds the two records of its
\* mount fetch and offers no delete
C31_Witness ==
  \E k \in Outstanding :
     /\ screen = "dashboard"
     /\ Outstanding = {k} /\ k = LastFetch /\ reqs[k].trigger # 0
     /\ Len(employees) = 2
     /\ \A id \in Ids : ~CanDelete(id)
     /\ deleteLoading /\ loading

\* the step leaves the Directory shown in place
Stays == screen = "dashboard" /\ screen' = "dashboard" /\ inst' = inst

\* C32: once a mounted Directory has an error message set, nothing that
\* happens while it stays on screen clears or changes the message or issues
\* a request for it, and it offers no delete; the only action left that
\* issues a request is leaving the screen.
C32_ErrorPersists ==
  [][(Stays /\ error # NoError) =>
        /\ error' = error
        /\ \A k \in Issued : reqs'[k].inst # inst
        /\ Outstanding' = {}
        /\ \A id \in Ids : ~CanDelete(id)']_vars

\* the re-fetch after a delete failed behind the confirmation, the user then
\* closed the confirmation, and the error message is still there over the
\* records still held
C32_Witness ==
  /\ screen = "dashboard"
  /\ error # NoError
  /\ consumed = Nothing
  /\ ~showSuccessModal
  /\ Len(employees) > 0
  /\ \E k \in OwnFetches : reqs[k].trigger # 0 /\ reqs[k].status = "fail"

\* C33: the Directory never shows the delete confirmation together with an
\* error message: whenever the confirmation is showing, no error is set,
\* also after the list re-fetch that follows a successful delete has failed.
C33_ConfirmationWithoutError ==
  (screen = "dashboard" /\ showSuccessModal) => error = NoError

\* the payload body is the one the draft fd denotes: the texts as they are,
\* the numbers parsed, the date of a create as its timestamp
FromDraft(body, fd) ==
  /\ body.name = fd.name
  /\ body.department = fd.department
  /\ body.status = fd.status
  /\ body.salary = SalaryDenoted(fd.salary)
  /\ body.managerId = ManagerDenoted(fd.managerId)
  /\ "dateOfJoining" \in DOMAIN body =>
        body.dateOfJoining = Timestamp(fd.dateOfJoining)

\* the submits of the form shown that are awaited before the step
Sending ==
  {k \in Posts \cup Patches : InFlight(k) /\ ~Left(k)}

\* C34: the payload of a create or update request is the one denoted by the
\* draft at the moment of submit; a field edit made while the request is in
\* flight changes the draft and leaves the issued request as it is; and the
\* response, success or failure, leaves the draft as it then is, in-flight
\* edits included.
C34_PayloadFixedAtSubmit ==
  [][/\ \A k \in Issued :
           reqs'[k].method \in {"POST", "PATCH"} =>
              /\ FromDraft(reqs'[k].body, formData)
              /\ formData' = formData
     /\ \A k \in Sending :
           /\ (consumed'.k # k) => reqs'[k] = reqs[k]
           /\ (consumed'.k = k) => formData' = formData]_vars

\* a create is on the wire carrying the name and department entered before
\* submit while the draft, edited since, already has another name and an
\* empty department
C34_Witness ==
  \E k \in Posts :
     /\ screen = "create" /\ loading
     /\ InFlight(k) /\ Mounted(k)
     /\ reqs[k].body.name = <<"Ann">>
     /\ reqs[k].body.department # <<>>
     /\ formData.name # <<"Ann">>
     /\ formData.department = <<>>

\* a form is on screen with a submit in flight
Submitting == FormShown /\ loading

\* a form is on screen, not loading, showing the confirmation or an error
\* message, with Submit and Cancel enabled
Resolved ==
  /\ FormShown /\ ~loading
  /\ showSuccessModal \/ error # NoError
  /\ ~SubmitDisabled /\ ~CancelDisabled

\* the Directory is on screen, loading or with a delete in progress
Busy == screen = "dashboard" /\ (loading \/ deleteLoading)

\* the Directory is on screen with loading cleared and no delete button
\* disabled
Settled ==
  /\ screen = "dashboard"
  /\ ~loading
  /\ \A id \in Ids : ~DeleteDisabled(id)

\* C35: given that every issued request is eventually answered or rejected,
\* every busy state ends, whatever the responses are: a Creator or Editor
\* that is submitting eventually shows the confirmation or an error with
\* Submit and Cancel enabled again, and a Directory that is loading or has a
\* delete in progress eventually has loading cleared and no delete button
\* disabled; each unless the user leaves the screen first (a screen is left
\* only for a screen of the other kind, so the screen that ends busy is the
\* one that was busy).
C35_BusyEnds ==
  /\ Submitting ~> (Resolved \/ ~FormShown)
  /\ Busy ~> (Settled \/ screen # "dashboard")

\* the re-fetch after a delete was answered 500 behind the confirmation: the
\* Directory is out of loading and its delete buttons are no longer disabled
C35_Witness ==
  /\ screen = "dashboard"
  /\ consumed.k \in OwnFetches
  /\ reqs[consumed.k].trigger # 0
  /\ consumed.resp = Answer(500, FALSE, <<>>)
  /\ ~loading /\ ~deleteLoading
  /\ showSuccessModal

\* a DELETE of the record of id is on the wire or was answered 204
DeleteIssued(id) ==
  \E k \in Deletes : reqs[k].id = id /\ reqs[k].status \in {"sent", "ok"}

\* C36: the Editor is never entered with, and never issues an update for, a
\* record whose DELETE is in flight or has succeeded: no Editor on screen
\* holds such a record and no update on the wire addresses one.
C36_NoEditOfDeletedRecord ==
  /\ (screen = "edit" /\ locationState # NoState) => ~DeleteIssued(locationState.id)
  /\ \A k \in Patches : InFlight(k) => ~DeleteIssued(reqs[k].id)

\* C37: a screen that has been left issues no further network request: every
\* request issued in a step is issued by the screen shown after the step; in
\* particular no list re-fetch follows the 204 of a delete whose Directory
\* was left.
C37_LeftScreenIssuesNothing ==
  [][\A k \in Issued :
        /\ ScreenOf(reqs'[k].method) = screen'
        /\ reqs'[k].inst = inst']_vars

====
